---- MODULE Spec2Model ----
(***************************************************************************)
(* Model of spn/experiments/RandomSPNs_layerwise/distributions.py:         *)
(* RatNormal (a Gaussian leaf with bounded mean and variance) and          *)
(* IndependentMultivariate (a leaf that pads the feature axis and sums     *)
(* the base leaf's log-likelihoods over consecutive groups of features).   *)
(*                                                                         *)
(* Real numbers are fixed-point integers in units of 1/Scale.  Tensors     *)
(* are sequences: [batch][feature][replica].                               *)
(***************************************************************************)
EXTENDS Integers, Sequences, FiniteSets

\* leaf: the RatNormal instance (its bounds and trainable parameters).
\* im:   the IndependentMultivariate instance (sizes, _pad, the Product's
\*       _out_features).
\* last: the outcome of the last call: the operation, the error it raised
\*       ("none" when it returned) and what it computed.
VARIABLES leaf, im, last

vars == <<leaf, im, last>>

(***************************************************************************)
(* Bounds of the model.                                                    *)
(***************************************************************************)
MaxF == 10
MaxM == 2
MaxB == 2
MaxK == 1
MaxN == 2

(***************************************************************************)
(* Numbers.                                                                *)
(***************************************************************************)
Scale == 10 * 100

\* Python's None, and a present value.
None == [some |-> FALSE, v |-> 0]
Some(x) == [some |-> TRUE, v |-> x]

\* Python truthiness of an optional float: None and 0.0 are both falsy.
Truthy(o) == o.some /\ o.v # 0

\* Candidate constructor arguments: -0.1, 0.0, 0.1, 1.0.
SigmaArgs == {0 - 100, 0, 100, Scale}
\* None, -1.0, 0.0, 1.0.
MeanArgs == {None, Some(0 - Scale), Some(0), Some(Scale)}
\* Raw (unconstrained) parameter values: -2, -1, 0, 0.5, 20.
RawVals == {0 - 2 * Scale, 0 - Scale, 0, Scale \div 2, 20 * Scale}
\* torch.randn / torch.rand initial values among them (rand is in [0, 1)).
InitMeans == {0 - Scale, 0, Scale \div 2}
InitStds == {0, Scale \div 2}

\* torch.sigmoid on RawVals, rounded to the resolution of the number format:
\* 0.119, 0.269, 0.5, 0.622, and exactly 1.0 at +20 (in float32 the nearest
\* value to 1 - 2.1e-9 is 1.0).
torch_sigmoid(x) ==
    CASE x = 0 - 2 * Scale -> 119
      [] x = 0 - Scale -> 269
      [] x = 0 -> 500
      [] x = Scale \div 2 -> 622
      [] x = 20 * Scale -> Scale

\* floor(sqrt(v)) in fixed point: the s with s*s <= v*Scale < (s+1)*(s+1).
FixSqrt(v) ==
    CHOOSE s \in 0..(v + Scale) : s * s <= v * Scale /\ (s + 1) * (s + 1) > v * Scale

\* torch.sqrt accepts a Tensor only; a Python float raises TypeError.
torch_sqrt(s) ==
    IF s.tensor
    THEN [err |-> "none", v |-> FixSqrt(s.v)]
    ELSE [err |-> "TypeError", v |-> 0]

(***************************************************************************)
(* check_valid(value, expected_type, lower_bound, upper_bound, allow_none) *)
(* TRUE when the value is accepted.  None is accepted only with            *)
(* allow_none; a bound of None is not checked.  The lower bound is         *)
(* inclusive.  The upper bound follows the documented ranges: min_sigma in *)
(* [0, max_sigma] for floats, cardinality <= in_features with              *)
(* upper_bound = in_features + 1 for ints.                                 *)
(***************************************************************************)
check_valid(value, expected_type, lower_bound, upper_bound, allow_none) ==
    IF ~value.some
    THEN allow_none
    ELSE /\ lower_bound.some => value.v >= lower_bound.v
         /\ upper_bound.some =>
               IF expected_type = "int"
               THEN value.v < upper_bound.v
               ELSE value.v <= upper_bound.v

(***************************************************************************)
(* RatNormal                                                               *)
(***************************************************************************)
NoLeaf ==
    [alive |-> FALSE, min_sigma |-> 0, max_sigma |-> 0,
     min_mean |-> None, max_mean |-> None, means |-> 0, stds |-> 0]

NoVal == [sigma |-> 0, mean |-> 0, std |-> 0]

\* The four checks of RatNormal.__init__, in order.
RatNormal_valid(min_sigma, max_sigma, min_mean, max_mean) ==
    /\ check_valid(Some(min_sigma), "float", Some(0), Some(max_sigma), FALSE)
    /\ check_valid(Some(max_sigma), "float", Some(min_sigma), None, FALSE)
    /\ check_valid(min_mean, "float", None, max_mean, TRUE)
    /\ check_valid(max_mean, "float", min_mean, None, TRUE)

\* A variant of Sigma that uses the raw parameter unbounded.
Sigma_NoBounding(l) ==
    [tensor |-> TRUE, v |-> l.stds]

\* sigma of _get_base_distribution: a tensor in the bounded branch, the
\* Python float 1.0 otherwise.
Sigma(l) ==
    IF l.min_sigma < l.max_sigma
    THEN [tensor |-> TRUE,
          v |-> l.min_sigma
                + ((l.max_sigma - l.min_sigma) * torch_sigmoid(l.stds)) \div Scale]
    ELSE [tensor |-> FALSE, v |-> Scale]

\* means of _get_base_distribution.
Means(l) ==
    IF Truthy(l.max_mean)
    THEN IF ~l.min_mean.some
         THEN [err |-> "AssertionError", v |-> 0]
         ELSE [err |-> "none",
               v |-> (torch_sigmoid(l.means) * (l.max_mean.v - l.min_mean.v)) \div Scale
                     + l.min_mean.v]
    ELSE [err |-> "none", v |-> l.means]

get_base_distribution(l) ==
    LET sigma == Sigma(l)
        means == Means(l)
        std == torch_sqrt(sigma)
    IN  IF means.err # "none"
        THEN [op |-> "get_base_distribution", err |-> means.err, val |-> NoVal]
        ELSE IF std.err # "none"
        THEN [op |-> "get_base_distribution", err |-> std.err, val |-> NoVal]
        ELSE [op |-> "get_base_distribution", err |-> "none",
              val |-> [sigma |-> sigma.v, mean |-> means.v, std |-> std.v]]

RatNormal_init ==
    /\ ~leaf.alive
    /\ \E min_sigma \in SigmaArgs, max_sigma \in SigmaArgs,
          min_mean \in MeanArgs, max_mean \in MeanArgs,
          m \in InitMeans, s \in InitStds :
          IF RatNormal_valid(min_sigma, max_sigma, min_mean, max_mean)
          THEN /\ leaf' = [alive |-> TRUE, min_sigma |-> min_sigma,
                           max_sigma |-> max_sigma, min_mean |-> min_mean,
                           max_mean |-> max_mean, means |-> m, stds |-> s]
               /\ last' = [op |-> "init", err |-> "none", val |-> NoVal]
          ELSE /\ leaf' = leaf
               /\ last' = [op |-> "init", err |-> "InvalidConfiguration", val |-> NoVal]
    /\ UNCHANGED im

\* The optimizer, between calls, moves the trainable parameters anywhere.
RatNormal_train ==
    /\ leaf.alive
    /\ \E m \in RawVals, s \in RawVals :
          leaf' = [leaf EXCEPT !.means = m, !.stds = s]
    /\ last' = [op |-> "train", err |-> "none", val |-> NoVal]
    /\ UNCHANGED im

RatNormal_get_base_distribution ==
    /\ leaf.alive
    /\ last' = get_base_distribution(leaf)
    /\ UNCHANGED <<leaf, im>>

(***************************************************************************)
(* IndependentMultivariate                                                 *)
(***************************************************************************)
NoIM ==
    [alive |-> FALSE, multiplicity |-> 0, in_features |-> 0, cardinality |-> 0,
     pad |-> 0, out_features |-> 0]

\* Product._out_features: ceil(in_features / cardinality).
Product_out_features(F, C) == (F + C - 1) \div C

\* A variant of PadAmount without the outer modulo.
PadAmount_NoOuterMod(F, C) == C - (F % C)

\* self._pad
PadAmount(F, C) == (C - (F % C)) % C

\* IndependentMultivariate.__init__: the Product and the pad amount are
\* computed before cardinality is validated, and both divide by cardinality.
IM_construct(M, F, C) ==
    IF C = 0
    THEN [err |-> "ZeroDivisionError", obj |-> NoIM]
    ELSE IF ~check_valid(Some(C), "int", Some(2), Some(F + 1), FALSE)
    THEN [err |-> "InvalidConfiguration", obj |-> NoIM]
    ELSE [err |-> "none",
          obj |-> [alive |-> TRUE, multiplicity |-> M, in_features |-> F,
                   cardinality |-> C, pad |-> PadAmount(F, C),
                   out_features |-> Product_out_features(F, C)]]

\* Log-density of the base leaf for value v of feature f under replica m:
\* an unnormalised unit-variance Gaussian with mean f + m, always negative.
LogProb(v, f, m) == 0 - ((v - (f + m)) * (v - (f + m)) + 1)

\* Leaf.forward of the base leaf: [batch][in_features][multiplicity], or an
\* error when the feature dimension of x is not in_features.
base_leaf_forward(o, x) ==
    IF \E b \in 1..Len(x) : Len(x[b]) # o.in_features
    THEN [err |-> "ShapeMismatch", v |-> <<>>]
    ELSE [err |-> "none",
          v |-> [b \in 1..Len(x) |->
                   [f \in 1..o.in_features |->
                      [m \in 1..o.multiplicity |-> LogProb(x[b][f], f, m)]]]]

\* A variant of F_pad that pads in front of the feature axis.
F_pad_Front(t, n, M) ==
    [b \in 1..Len(t) |-> [i \in 1..n |-> [m \in 1..M |-> 0]] \o t[b]]

\* F.pad(x, pad=[0, 0, 0, n], mode="constant", value=0.0): n zero slices
\* appended to the feature axis; the replica axis is not padded.
F_pad(t, n, M) ==
    [b \in 1..Len(t) |-> t[b] \o [i \in 1..n |-> [m \in 1..M |-> 0]]]

\* A variant of Padded that never pads.
Padded_Never(o, t) == t

\* if self._pad: x = F.pad(...)
Padded(o, t) ==
    IF o.pad # 0 THEN F_pad(t, o.pad, o.multiplicity) ELSE t

RECURSIVE SumTo(_, _)
\* f[1] + ... + f[n]
SumTo(f, n) == IF n = 0 THEN 0 ELSE f[n] + SumTo(f, n - 1)

\* Product.forward: consecutive groups of cardinality features, summed.
Product_forward(o, t) ==
    [b \in 1..Len(t) |->
       [g \in 1..(Len(t[b]) \div o.cardinality) |->
          [m \in 1..o.multiplicity |->
             SumTo([j \in 1..o.cardinality |->
                      t[b][(g - 1) * o.cardinality + j][m]], o.cardinality)]]]

IM_forward(o, x) ==
    LET l == base_leaf_forward(o, x)
    IN  IF l.err # "none"
        THEN [op |-> "forward", err |-> l.err, val |-> [x |-> x]]
        ELSE LET padded == Padded(o, l.v)
             IN  [op |-> "forward", err |-> "none",
                  val |-> [x |-> x, leaf_out |-> l.v, padded |-> padded,
                           out |-> Product_forward(o, padded)]]

\* A variant of the accessor that hands out the base leaf's distribution.
IM_get_base_distribution_OfBaseLeaf(o) ==
    [op |-> "get_base_distribution", err |-> "none", val |-> [returned |-> TRUE]]

\* IndependentMultivariate._get_base_distribution: raise Exception(...)
IM_get_base_distribution(o) ==
    [op |-> "get_base_distribution", err |-> "Exception", val |-> [returned |-> FALSE]]

\* Product.sample: the selection of each group, repeated for the features of
\* the group; positions past in_features (padding) are dropped.
Product_sample(o, indices, n) ==
    [r \in 1..Len(indices) |->
       [f \in 1..o.in_features |-> indices[r][(f - 1) \div o.cardinality + 1]]]

\* Leaf.sample of the base leaf: one value per feature, drawn from the
\* Gaussian of the selected replica (the value is named by feature and
\* replica).
base_leaf_sample(o, indices, n) ==
    IF \E r \in 1..Len(indices) : Len(indices[r]) # o.in_features
    THEN [err |-> "ShapeMismatch", v |-> <<>>]
    ELSE [err |-> "none",
          v |-> [r \in 1..Len(indices) |->
                   [f \in 1..o.in_features |-> <<f, indices[r][f]>>]]]

\* A variant of IM_sample that hands the caller's indices to the base leaf.
IM_sample_Unexpanded(o, indices, n) ==
    LET samples == base_leaf_sample(o, indices, n)
    IN  [op |-> "sample", err |-> samples.err,
         val |-> [indices |-> indices, n |-> n,
                  calls |-> << [fn |-> "base_leaf.sample", indices |-> indices, n |-> n] >>,
                  samples |-> samples.v]]

\* IndependentMultivariate.sample
IM_sample(o, indices, n) ==
    LET expanded == Product_sample(o, indices, n)
        samples == base_leaf_sample(o, expanded, n)
    IN  [op |-> "sample", err |-> samples.err,
         val |-> [indices |-> indices, n |-> n,
                  calls |-> << [fn |-> "prod.sample", indices |-> indices, n |-> n],
                               [fn |-> "base_leaf.sample", indices |-> expanded, n |-> n] >>,
                  samples |-> samples.v]]

IndependentMultivariate_init ==
    /\ ~im.alive
    /\ \E M \in 1..MaxM, F \in 1..MaxF, C \in 0..(MaxF + 1) :
          LET r == IM_construct(M, F, C)
          IN  /\ im' = r.obj
              /\ last' = [op |-> "init", err |-> r.err,
                          val |-> [in_features |-> F, cardinality |-> C]]
    /\ UNCHANGED leaf

\* forward on a batch of B rows; the feature dimension of x may be wrong.
IndependentMultivariate_forward ==
    /\ im.alive
    /\ \E B \in 1..MaxB, k \in 0..MaxK, xF \in {im.in_features, im.in_features + 1} :
          last' = IM_forward(im, [b \in 1..B |-> [f \in 1..xF |-> k + b + f]])
    /\ UNCHANGED <<leaf, im>>

IndependentMultivariate_get_base_distribution ==
    /\ im.alive
    /\ last' = IM_get_base_distribution(im)
    /\ UNCHANGED <<leaf, im>>

\* sample driven by the parent's indices (one replica per group and row);
\* n is None then.  The evidence argument is not used by the method.
IndependentMultivariate_sample ==
    /\ im.alive
    /\ \E rows \in 1..MaxN, k \in 0..(im.multiplicity - 1) :
          last' = IM_sample(im,
                            [r \in 1..rows |->
                               [g \in 1..im.out_features |-> (k + r + g) % im.multiplicity]],
                            None)
    /\ UNCHANGED <<leaf, im>>

Init ==
    /\ leaf = NoLeaf
    /\ im = NoIM
    /\ last = [op |-> "none", err |-> "none", val |-> NoVal]

NextRat ==
    \/ RatNormal_init
    \/ RatNormal_train
    \/ RatNormal_get_base_distribution

SpecRat == Init /\ [][NextRat]_vars

NextIM ==
    \/ IndependentMultivariate_init
    \/ IndependentMultivariate_forward
    \/ IndependentMultivariate_get_base_distribution
    \/ IndependentMultivariate_sample

SpecIM == Init /\ [][NextIM]_vars

(***************************************************************************)
(* Properties of RatNormal, checked under SpecRat.                         *)
(***************************************************************************)
Derived == last.op = "get_base_distribution"

BothOrNeither(l) == l.min_mean.some <=> l.max_mean.some

\* C6: every RatNormal that was constructed has 0 <= min_sigma <= max_sigma
\* and mean bounds that are both set (min_mean <= max_mean) or both unset,
\* and deriving its base distribution never fails.
C6_InvalidConfigurationRejectedAtConstruction ==
    /\ leaf.alive =>
          /\ 0 <= leaf.min_sigma
          /\ leaf.min_sigma <= leaf.max_sigma
          /\ BothOrNeither(leaf)
          /\ (leaf.min_mean.some /\ leaf.max_mean.some)
                => leaf.min_mean.v <= leaf.max_mean.v
    /\ Derived => last.err = "none"

\* C7: with min_mean < max_mean set, the derived mean lies in
\* [min_mean, max_mean]; with the bounds unset it is the raw mean.
C7_DerivedMeanWithinBounds ==
    (Derived /\ last.err = "none") =>
        /\ (leaf.min_mean.some /\ leaf.max_mean.some
              /\ leaf.min_mean.v < leaf.max_mean.v)
             => (leaf.min_mean.v <= last.val.mean /\ last.val.mean <= leaf.max_mean.v)
        /\ (~leaf.min_mean.some /\ ~leaf.max_mean.some)
             => last.val.mean = leaf.means

\* C8: with min_sigma = max_sigma (and the mean bounds both set or both
\* unset) the derivation succeeds with variance and standard deviation 1.0.
C8_EqualSigmaGivesUnitVariance ==
    (Derived /\ leaf.min_sigma = leaf.max_sigma /\ BothOrNeither(leaf)) =>
        /\ last.err = "none"
        /\ last.val.sigma = Scale
        /\ last.val.std = Scale

SqrtOnce ==
    /\ last.val.std * last.val.std <= last.val.sigma * Scale
    /\ (last.val.std + 1) * (last.val.std + 1) > last.val.sigma * Scale

StdWithinSqrtBounds ==
    /\ (last.val.std + 1) * (last.val.std + 1) > leaf.min_sigma * Scale
    /\ last.val.std * last.val.std <= leaf.max_sigma * Scale

BoundedDerived == Derived /\ last.err = "none" /\ leaf.min_sigma < leaf.max_sigma

\* C9 as stated: with min_sigma < max_sigma the derived sigma is strictly
\* between min_sigma and max_sigma, and the standard deviation is its square
\* root, taken once, within [sqrt(min_sigma), sqrt(max_sigma)].
C9_SigmaStrictlyInside ==
    BoundedDerived =>
        /\ leaf.min_sigma < last.val.sigma
        /\ last.val.sigma < leaf.max_sigma
        /\ SqrtOnce
        /\ StdWithinSqrtBounds

\* C9 amended: with min_sigma < max_sigma the derived sigma lies in the
\* closed interval [min_sigma, max_sigma] (max_sigma is attained when the
\* sigmoid saturates), and the standard deviation is its square root, taken
\* once, within [sqrt(min_sigma), sqrt(max_sigma)].
C9_SigmaWithinClosedBounds ==
    BoundedDerived =>
        /\ leaf.min_sigma <= last.val.sigma
        /\ last.val.sigma <= leaf.max_sigma
        /\ SqrtOnce
        /\ StdWithinSqrtBounds

\* A derivation in the bounded branch whose sigmoid saturated.
C9_Witness ==
    /\ BoundedDerived
    /\ leaf.stds = 20 * Scale
    /\ last.val.sigma = leaf.max_sigma

(***************************************************************************)
(* Properties of IndependentMultivariate, checked under SpecIM.            *)
(***************************************************************************)
PadLaw ==
    im.alive =>
        /\ im.pad \in 0..(im.cardinality - 1)
        /\ (im.in_features + im.pad) % im.cardinality = 0
        /\ (im.pad = 0) <=> (im.in_features % im.cardinality = 0)
        /\ (im.in_features = 10 /\ im.cardinality = 3) => im.pad = 2
        /\ (im.in_features = 9 /\ im.cardinality = 3) => im.pad = 0
        /\ (im.in_features = 7 /\ im.cardinality = 3) => im.pad = 2

\* C1: the pad amount of a constructed IndependentMultivariate lies in
\* 0..cardinality-1, makes in_features + pad divisible by cardinality, is 0
\* exactly when cardinality divides in_features (10,3 -> 2; 9,3 -> 0;
\* 7,3 -> 2), and no later call changes it.
C1_PadAmountLaw ==
    /\ []PadLaw
    /\ [][im.alive => (im'.alive /\ im'.pad = im.pad)]_vars

\* in_features = 10, cardinality = 3, pad 2, after a forward or sample call.
C1_Witness ==
    /\ im.alive
    /\ im.in_features = 10
    /\ im.cardinality = 3
    /\ im.pad = 2
    /\ last.op \in {"forward", "sample"}

ForwardDone == last.op = "forward" /\ last.err = "none"

\* C2: forward on x of shape [B, in_features] returns a tensor of shape
\* [B, ceil(in_features / cardinality), multiplicity].
C2_ForwardOutputShape ==
    ForwardDone =>
        /\ Len(last.val.out) = Len(last.val.x)
        /\ \A b \in 1..Len(last.val.out) :
              /\ Len(last.val.out[b]) * im.cardinality >= im.in_features
              /\ (Len(last.val.out[b]) - 1) * im.cardinality < im.in_features
              /\ \A g \in 1..Len(last.val.out[b]) :
                    Len(last.val.out[b][g]) = im.multiplicity

\* in_features = 7, cardinality = 3: three groups for a batch of two rows.
C2_Witness ==
    /\ ForwardDone
    /\ im.in_features = 7
    /\ im.cardinality = 3
    /\ Len(last.val.x) = 2
    /\ Len(last.val.out[1]) = 3

Min(a, b) == IF a < b THEN a ELSE b

\* The base leaf's log-likelihoods of the real features of group g, summed.
RealGroupSum(t, b, g, m) ==
    LET lo == (g - 1) * im.cardinality
        hi == Min(g * im.cardinality, im.in_features)
    IN  SumTo([j \in 1..(hi - lo) |-> t[b][lo + j][m]], hi - lo)

\* C3: the padded tensor is the base leaf's output followed by pad slices of
\* zeros, and every output value is the sum of the base leaf's
\* log-likelihoods over the real features of its group.
C3_PaddingContributesZero ==
    ForwardDone =>
        \A b \in 1..Len(last.val.x) :
            /\ Len(last.val.padded[b]) = im.in_features + im.pad
            /\ \A f \in 1..im.in_features :
                  last.val.padded[b][f] = last.val.leaf_out[b][f]
            /\ \A f \in (im.in_features + 1)..(im.in_features + im.pad) :
                  \A m \in 1..im.multiplicity : last.val.padded[b][f][m] = 0
            /\ \A g \in 1..Len(last.val.out[b]) :
                  \A m \in 1..im.multiplicity :
                      last.val.out[b][g][m] = RealGroupSum(last.val.leaf_out, b, g, m)

\* A forward whose last group holds padding.
C3_Witness ==
    /\ ForwardDone
    /\ im.pad > 0
    /\ Len(last.val.padded[1]) > im.in_features

\* C4: every call of the accessor on an IndependentMultivariate ends in an
\* error, returns nothing, and leaves the object as it was.
C4_AccessorAlwaysFails ==
    [][last'.op = "get_base_distribution" =>
          /\ last'.err # "none"
          /\ ~last'.val.returned
          /\ im' = im]_vars

\* The accessor called on a constructed object, ending in the exception.
C4_Witness ==
    /\ im.alive
    /\ last.op = "get_base_distribution"
    /\ last.err = "Exception"

\* C5: construction succeeds exactly when 2 <= cardinality <= in_features,
\* and otherwise fails with InvalidConfiguration, leaving no instance.
C5_CardinalityRejectedAsInvalidConfiguration ==
    last.op = "init" =>
        IF 2 <= last.val.cardinality /\ last.val.cardinality <= last.val.in_features
        THEN last.err = "none" /\ im.alive
        ELSE last.err = "InvalidConfiguration" /\ ~im.alive

SampleDone == last.op = "sample"

====
